---- MODULE Spec2Model ----
(***************************************************************************)
(* State machine of the music player: the App component's React state      *)
(* (frontend/src/App.jsx), the <audio> element driven by the Player        *)
(* component's effects (frontend/src/components/Player.jsx) and the        *)
(* Express library server (backend/server.js).                             *)
(*                                                                         *)
(* Indices are 0-based as in the source; the TLA+ sequence `tracks` is     *)
(* 1-based, so tracks[i] of the source is At(tracks, i) here.              *)
(*                                                                         *)
(* Every event handler is one action.  An action contains the handler's    *)
(* state updates, the re-render and the Player effects that React runs     *)
(* before the next event is delivered.  In server mode the part of an      *)
(* async handler after `await fetch(...)` is a separate action that still  *)
(* uses the `index` and `currentIndex` captured when the handler was       *)
(* called (the closure of that render).                                    *)
(*                                                                         *)
(* Two specifications: Spec is the program as shipped (API_BASE = "",      *)
(* client-only mode); SpecServer is the program with API_BASE set, where   *)
(* uploads, removals and the initial load go through fetches that the      *)
(* server handles and answers in any order.                                *)
(*                                                                         *)
(* Not modelled: the currentTime/duration React state (display only),      *)
(* track titles and urls (a url is identified with its track id), and a    *)
(* play() that the environment rejects although a source is set.           *)
(***************************************************************************)
EXTENDS Integers, Sequences, FiniteSets

\* ---------------------------------------------------------------- bounds
\* Number of track ids the upload paths may create in one behaviour.
MaxId == 3
\* Number of files in one upload.
MaxFiles == 2
\* Number of fetches that may be in flight at once (server mode).
MaxPending == 2
\* Number of track ids the server may create in one behaviour.
MaxServerId == 2
\* Number of files in one upload to the server.
MaxServerFiles == 1

\* ------------------------------------------------------- program constants
\* useState(null): the value of currentIndex when nothing is selected.
null == -1000
\* handlePrev: `audio.currentTime > 5`.
RestartThreshold == 5
\* useState(0.8), in percent.
DefaultVolume == 80

RepeatModes == {"off", "all", "one"}
\* Elapsed times of the audio element that the code can tell apart.
Times == {0, RestartThreshold, RestartThreshold + 1}

VARIABLES
  apiBase,        \* TRUE iff API_BASE is set (server mode)
  tracks,         \* useState([]): sequence of [id, via]
  currentIndex,   \* useState(null)
  isPlaying,      \* useState(false)
  shuffle,        \* useState(false)
  repeatMode,     \* useState('off')
  volume,         \* useState(0.8), in percent
  audio,          \* audioRef.current: [src, paused, currentTime]
  calls,          \* adapter calls issued while handling the last event
  library,        \* server.js: let library = []
  nextId,         \* number of track ids created so far
  pending,        \* fetches in flight, with the closure of their handler
  ev              \* the last event handled: [name, arg]

vars == <<apiBase, tracks, currentIndex, isPlaying, shuffle, repeatMode,
          volume, audio, calls, library, nextId, pending, ev>>

\* ---------------------------------------------------------------- helpers
\* tracks[i] of the source; NoTrack stands for undefined.
NoTrack == [id |-> 0, via |-> "none"]
At(s, i) == IF i >= 0 /\ i < Len(s) THEN s[i + 1] ELSE NoTrack

\* prev.filter((_, i) => i !== index)
RemoveAt(s, index) ==
  IF index >= 0 /\ index < Len(s)
  THEN SubSeq(s, 1, index) \o SubSeq(s, index + 2, Len(s))
  ELSE s

\* JavaScript `index < currentIndex`: null converts to 0.
JsLess(index, ci) == index < (IF ci = null THEN 0 ELSE ci)

\* JavaScript `i - 1`: null converts to 0.
JsDec(i) == IF i = null THEN -1 ELSE i - 1

\* The `track` prop App passes to Player.
TrackProp(tr, ci) == IF ci = null THEN NoTrack ELSE At(tr, ci)

Ids(s) == {s[k].id : k \in 1..Len(s)}

Event(name, arg) == [name |-> name, arg |-> arg]

\* ------------------------------------------------- the <audio> element
\* st = [a |-> the audio element, c |-> the calls made so far in this event]
\* audio.src = track.url: the element resets to a paused, rewound state.
AudioLoad(st, id) ==
  [a |-> [src |-> id, paused |-> TRUE, currentTime |-> 0],
   c |-> Append(st.c, "load")]

\* audio.play(): starts playback when a source is set; without one the
\* promise rejects and the rejection is swallowed.
AudioPlay(st) ==
  [a |-> IF st.a.src # null THEN [st.a EXCEPT !.paused = FALSE] ELSE st.a,
   c |-> Append(st.c, "play")]

\* audio.pause()
AudioPause(st) ==
  [a |-> [st.a EXCEPT !.paused = TRUE], c |-> Append(st.c, "pause")]

\* audio.currentTime = t
AudioSeek(st, t) ==
  [a |-> [st.a EXCEPT !.currentTime = t], c |-> Append(st.c, "seek")]

\* audio.volume = volume
AudioVolume(st) == [st EXCEPT !.c = Append(st.c, "volume")]

\* Player.jsx, effect with deps [volume, ref]
VolumeEffect(oldVol, newVol, st) ==
  IF newVol # oldVol THEN AudioVolume(st) ELSE st

\* Player.jsx, effect with deps [track, isPlaying, ref]
SourceEffect(oldTrack, oldIP, newTrack, newIP, st) ==
  IF (newTrack # oldTrack \/ newIP # oldIP) /\ newTrack # NoTrack
  THEN LET loaded == AudioLoad(st, newTrack.id)
       IN  IF newIP THEN AudioPlay(loaded) ELSE loaded
  ELSE st

\* Player.jsx, effect with deps [isPlaying, ref]
PlayPauseEffect(oldIP, newIP, st) ==
  IF newIP # oldIP
  THEN IF newIP THEN AudioPlay(st) ELSE AudioPause(st)
  ELSE st

\* The effects of one re-render, in declaration order.
Effects(oldTrack, oldIP, oldVol, newTrack, newIP, newVol, st) ==
  PlayPauseEffect(oldIP, newIP,
    SourceEffect(oldTrack, oldIP, newTrack, newIP,
      VolumeEffect(oldVol, newVol, st)))

\* The audio element at the start of an event, no call made yet.
Fresh == [a |-> audio, c |-> <<>>]

\* Commit the state updates of one event, re-render and run the effects.
Commit(tr, ci, ip, vol, st, e) ==
  LET fx == Effects(TrackProp(tracks, currentIndex), isPlaying, volume,
                    TrackProp(tr, ci), ip, vol, st)
  IN  /\ tracks' = tr
      /\ currentIndex' = ci
      /\ isPlaying' = ip
      /\ volume' = vol
      /\ audio' = fx.a
      /\ calls' = fx.c
      /\ ev' = e

\* An event whose handler returns without any update.
Ignore(e) ==
  /\ ev' = e
  /\ calls' = <<>>
  /\ UNCHANGED <<apiBase, tracks, currentIndex, isPlaying, shuffle, repeatMode,
                 volume, audio, library, nextId, pending>>

\* ------------------------------------------------------- queue decisions
\* ShuffleNext with a seeded fault: a pick that collides is not adjusted.
ShuffleNextNoAdjust(len, ci, r) == r

\* handleNext, shuffle branch: r is Math.floor(Math.random() * tracks.length)
ShuffleNext(len, ci, r) ==
  IF len > 1 /\ r = ci THEN (r + 1) % len ELSE r

\* handlePrev, shuffle branch
ShufflePrev(len, ci, r) ==
  IF len > 1 /\ r = ci THEN (r + len - 1) % len ELSE r

\* NextDecision with a seeded fault: the wrap-around is tied to repeatMode
\* 'one' instead of 'all'.
NextDecisionWrapOnOne(len, ci, ip, sh, rm, r) ==
  IF len = 0 THEN [currentIndex |-> ci, isPlaying |-> ip]
  ELSE IF sh THEN [currentIndex |-> ShuffleNext(len, ci, r), isPlaying |-> TRUE]
  ELSE IF ci = null THEN [currentIndex |-> ci, isPlaying |-> ip]
  ELSE IF ci + 1 >= len
       THEN IF rm = "one"
            THEN [currentIndex |-> 0, isPlaying |-> TRUE]
            ELSE [currentIndex |-> ci, isPlaying |-> FALSE]
       ELSE [currentIndex |-> ci + 1, isPlaying |-> TRUE]

\* NextDecision with a seeded fault: the end of the list is tested with >
\* instead of >=.
NextDecisionPastEnd(len, ci, ip, sh, rm, r) ==
  IF len = 0 THEN [currentIndex |-> ci, isPlaying |-> ip]
  ELSE IF sh THEN [currentIndex |-> ShuffleNext(len, ci, r), isPlaying |-> TRUE]
  ELSE IF ci = null THEN [currentIndex |-> ci, isPlaying |-> ip]
  ELSE IF ci + 1 > len
       THEN IF rm = "all"
            THEN [currentIndex |-> 0, isPlaying |-> TRUE]
            ELSE [currentIndex |-> ci, isPlaying |-> FALSE]
       ELSE [currentIndex |-> ci + 1, isPlaying |-> TRUE]

\* handleNext as a function of the state it reads: the resulting
\* [currentIndex, isPlaying].
NextDecision(len, ci, ip, sh, rm, r) ==
  IF len = 0 THEN [currentIndex |-> ci, isPlaying |-> ip]
  ELSE IF sh THEN [currentIndex |-> ShuffleNext(len, ci, r), isPlaying |-> TRUE]
  ELSE IF ci = null THEN [currentIndex |-> ci, isPlaying |-> ip]
  ELSE IF ci + 1 >= len
       THEN IF rm = "all"
            THEN [currentIndex |-> 0, isPlaying |-> TRUE]
            ELSE [currentIndex |-> ci, isPlaying |-> FALSE]
       ELSE [currentIndex |-> ci + 1, isPlaying |-> TRUE]

\* PrevDecision with a seeded fault: the wrap-around goes to len instead of
\* len - 1.
PrevDecisionWrapsPastEnd(len, ci, ip, sh, rm, r) ==
  IF sh THEN [currentIndex |-> ShufflePrev(len, ci, r), isPlaying |-> TRUE]
  ELSE IF ci = null THEN [currentIndex |-> ci, isPlaying |-> ip]
  ELSE IF ci - 1 < 0
       THEN IF rm = "all"
            THEN [currentIndex |-> len, isPlaying |-> TRUE]
            ELSE [currentIndex |-> ci, isPlaying |-> FALSE]
       ELSE [currentIndex |-> ci - 1, isPlaying |-> TRUE]

\* handlePrev below the restart shortcut, likewise.
PrevDecision(len, ci, ip, sh, rm, r) ==
  IF sh THEN [currentIndex |-> ShufflePrev(len, ci, r), isPlaying |-> TRUE]
  ELSE IF ci = null THEN [currentIndex |-> ci, isPlaying |-> ip]
  ELSE IF ci - 1 < 0
       THEN IF rm = "all"
            THEN [currentIndex |-> len - 1, isPlaying |-> TRUE]
            ELSE [currentIndex |-> ci, isPlaying |-> FALSE]
       ELSE [currentIndex |-> ci - 1, isPlaying |-> TRUE]

\* The values Math.random() can select; one dummy value for an empty list.
Picks(len) == IF len = 0 THEN {0} ELSE 0..(len - 1)

\* ------------------------------------------------------------ App handlers
\* The tracks an upload creates: ids first+1 .. first+n.
NewTracks(first, n, via) == [k \in 1..n |-> [id |-> first + k, via |-> via]]

\* UploadLocal with a seeded fault: setCurrentIndex(0) without the test of
\* currentIndex.
UploadLocalAlwaysSelects(n) ==
  /\ nextId + n <= MaxId
  /\ nextId' = nextId + n
  /\ Commit(tracks \o NewTracks(nextId, n, "local"), 0,
            isPlaying, volume, Fresh, Event("Upload", null))
  /\ UNCHANGED <<apiBase, shuffle, repeatMode, library, pending>>

\* handleUpload, client-only branch (n files selected).
UploadLocal(n) ==
  /\ nextId + n <= MaxId
  /\ nextId' = nextId + n
  /\ Commit(tracks \o NewTracks(nextId, n, "local"),
            IF currentIndex = null THEN 0 ELSE currentIndex,
            isPlaying, volume, Fresh, Event("Upload", null))
  /\ UNCHANGED <<apiBase, shuffle, repeatMode, library, pending>>

\* RemoveUpdates with a seeded fault: removing the current track clears
\* currentIndex without setIsPlaying(false).
RemoveUpdatesKeepPlaying(index, ci, e) ==
  Commit(RemoveAt(tracks, index),
         IF JsLess(index, ci) THEN JsDec(currentIndex)
         ELSE IF index = ci THEN null
         ELSE currentIndex,
         isPlaying, volume, Fresh, e)

\* The state updates of handleRemove once the track is to be dropped:
\* `index` and `ci` are the handler's closure values, the updater functions
\* work on the state current at that time.
RemoveUpdates(index, ci, e) ==
  Commit(RemoveAt(tracks, index),
         IF JsLess(index, ci) THEN JsDec(currentIndex)
         ELSE IF index = ci THEN null
         ELSE currentIndex,
         IF ~JsLess(index, ci) /\ index = ci THEN FALSE ELSE isPlaying,
         volume, Fresh, e)

\* handleRemove, client-only branch.
RemoveLocal(index) ==
  /\ RemoveUpdates(index, currentIndex, Event("Remove", index))
  /\ UNCHANGED <<apiBase, shuffle, repeatMode, library, nextId, pending>>

\* handleSelect
HandleSelect(index) ==
  IF index < 0 \/ index >= Len(tracks)
  THEN Ignore(Event("Select", index))
  ELSE /\ Commit(tracks, index, TRUE, volume, Fresh, Event("Select", index))
       /\ UNCHANGED <<apiBase, shuffle, repeatMode, library, nextId, pending>>

\* handlePlayPause with a seeded fault: with nothing selected it selects the
\* first track without setIsPlaying(true).
HandlePlayPauseSelectsOnly ==
  IF currentIndex = null
  THEN IF Len(tracks) > 0
       THEN /\ Commit(tracks, 0, isPlaying, volume, Fresh,
                      Event("PlayPause", null))
            /\ UNCHANGED <<apiBase, shuffle, repeatMode, library, nextId, pending>>
       ELSE Ignore(Event("PlayPause", null))
  ELSE /\ Commit(tracks, currentIndex, ~isPlaying, volume, Fresh,
                 Event("PlayPause", null))
       /\ UNCHANGED <<apiBase, shuffle, repeatMode, library, nextId, pending>>

\* handlePlayPause
HandlePlayPause ==
  IF currentIndex = null
  THEN IF Len(tracks) > 0
       THEN /\ Commit(tracks, 0, TRUE, volume, Fresh, Event("PlayPause", null))
            /\ UNCHANGED <<apiBase, shuffle, repeatMode, library, nextId, pending>>
       ELSE Ignore(Event("PlayPause", null))
  ELSE /\ Commit(tracks, currentIndex, ~isPlaying, volume, Fresh,
                 Event("PlayPause", null))
       /\ UNCHANGED <<apiBase, shuffle, repeatMode, library, nextId, pending>>

\* The body of handleNext, called from the Next button (e = Next) and from
\* handleEnded (e = Ended) on the audio element `a`.
DoNext(a, e) ==
  \E r \in Picks(Len(tracks)) :
    LET d == NextDecision(Len(tracks), currentIndex, isPlaying, shuffle,
                          repeatMode, r)
    IN  /\ Commit(tracks, d.currentIndex, d.isPlaying, volume,
                  [a |-> a, c |-> <<>>], e)
        /\ UNCHANGED <<apiBase, shuffle, repeatMode, library, nextId, pending>>

\* handleNext
HandleNext == DoNext(audio, Event("Next", null))

\* handlePrev
HandlePrev ==
  IF Len(tracks) = 0
  THEN Ignore(Event("Prev", null))
  ELSE IF audio.currentTime > RestartThreshold
  THEN /\ Commit(tracks, currentIndex, isPlaying, volume, AudioSeek(Fresh, 0),
                 Event("Prev", null))
       /\ UNCHANGED <<apiBase, shuffle, repeatMode, library, nextId, pending>>
  ELSE \E r \in Picks(Len(tracks)) :
         LET d == PrevDecision(Len(tracks), currentIndex, isPlaying, shuffle,
                               repeatMode, r)
         IN  /\ Commit(tracks, d.currentIndex, d.isPlaying, volume, Fresh,
                       Event("Prev", null))
             /\ UNCHANGED <<apiBase, shuffle, repeatMode, library, nextId, pending>>

\* DoEnded with a seeded fault: the repeat-one branch is missing, every end
\* advances the queue.
DoEndedAlwaysNext(a) == DoNext(a, Event("Ended", null))

\* The body of handleEnded on the audio element `a`.
DoEnded(a) ==
  IF repeatMode = "one"
  THEN /\ Commit(tracks, currentIndex, isPlaying, volume,
                 AudioPlay(AudioSeek([a |-> a, c |-> <<>>], 0)),
                 Event("Ended", null))
       /\ UNCHANGED <<apiBase, shuffle, repeatMode, library, nextId, pending>>
  ELSE DoNext(a, Event("Ended", null))

\* The audio element reaches the end of its source (at time t), stops and
\* fires `ended`; handleEnded runs.
HandleEnded ==
  /\ audio.src # null
  /\ ~audio.paused
  /\ \E t \in Times :
       /\ t >= audio.currentTime
       /\ DoEnded([audio EXCEPT !.paused = TRUE, !.currentTime = t])

\* Events that no property singles out are recorded as "Other".
Other == Event("Other", null)

\* handleSeek: the slider moves the playback position (duration known).
HandleSeek(t) ==
  /\ audio.src # null
  /\ Commit(tracks, currentIndex, isPlaying, volume, AudioSeek(Fresh, t), Other)
  /\ UNCHANGED <<apiBase, shuffle, repeatMode, library, nextId, pending>>

\* Playback advances (timeupdate notification).
Progress(t) ==
  /\ audio.src # null
  /\ ~audio.paused
  /\ t > audio.currentTime
  /\ audio' = [audio EXCEPT !.currentTime = t]
  /\ calls' = <<>>
  /\ ev' = Other
  /\ UNCHANGED <<apiBase, tracks, currentIndex, isPlaying, shuffle, repeatMode,
                 volume, library, nextId, pending>>

\* toggleRepeatMode
NextRepeatMode(mode) ==
  IF mode = "off" THEN "all" ELSE IF mode = "all" THEN "one" ELSE "off"

ToggleRepeatMode ==
  /\ repeatMode' = NextRepeatMode(repeatMode)
  /\ calls' = <<>>
  /\ ev' = Other
  /\ UNCHANGED <<apiBase, tracks, currentIndex, isPlaying, shuffle, volume, audio,
                 library, nextId, pending>>

\* toggleShuffle
ToggleShuffle ==
  /\ shuffle' = ~shuffle
  /\ calls' = <<>>
  /\ ev' = Other
  /\ UNCHANGED <<apiBase, tracks, currentIndex, isPlaying, repeatMode, volume,
                 audio, library, nextId, pending>>

\* The mute button: setVolume((v) => (v > 0 ? 0 : 0.8))
ToggleMute ==
  /\ Commit(tracks, currentIndex, isPlaying,
            IF volume > 0 THEN 0 ELSE DefaultVolume, Fresh, Other)
  /\ UNCHANGED <<apiBase, shuffle, repeatMode, library, nextId, pending>>

\* ------------------------------------------------------------ server mode
\* A fetch in flight: the request, the closure values of the handler that
\* awaits it and, once served, the response.
Request(kind, index, id, ci, n) ==
  [kind |-> kind, stage |-> "sent", index |-> index, id |-> id, ci |-> ci,
   n |-> n, status |-> 0, data |-> <<>>]

DropAt(s, k) == SubSeq(s, 1, k - 1) \o SubSeq(s, k + 1, Len(s))

\* Ids that uploads already sent will still create.
RECURSIVE Reserved(_)
Reserved(s) ==
  IF s = <<>> THEN 0
  ELSE (IF Head(s).kind = "POST" /\ Head(s).stage = "sent" THEN Head(s).n ELSE 0)
       + Reserved(Tail(s))

\* library.findIndex((t) => t.id === id), 0-based, -1 when absent
FindIndex(lib, id) ==
  IF \E k \in 1..Len(lib) : lib[k] = id
  THEN (CHOOSE k \in 1..Len(lib) :
          lib[k] = id /\ \A j \in 1..(k - 1) : lib[j] # id) - 1
  ELSE -1

\* handleUpload, server branch up to `await fetch(...)`.
UploadSend(n) ==
  /\ n <= MaxServerFiles
  /\ Len(pending) < MaxPending
  /\ nextId + Reserved(pending) + n <= MaxServerId
  /\ pending' = Append(pending, Request("POST", null, 0, currentIndex, n))
  /\ calls' = <<>>
  /\ ev' = Event("UploadSent", null)
  /\ UNCHANGED <<apiBase, tracks, currentIndex, isPlaying, shuffle, repeatMode,
                 volume, audio, library, nextId>>

\* handleRemove, server branch up to `await fetch(...)`.
RemoveSend(index) ==
  /\ Len(pending) < MaxPending
  /\ pending' = Append(pending,
       Request("DELETE", index, At(tracks, index).id, currentIndex, 0))
  /\ calls' = <<>>
  /\ ev' = Event("RemoveSent", index)
  /\ UNCHANGED <<apiBase, tracks, currentIndex, isPlaying, shuffle, repeatMode,
                 volume, audio, library, nextId>>

\* handleUpload (the input always delivers at least one file here)
HandleUpload(n) ==
  IF ~apiBase THEN UploadLocal(n) ELSE UploadSend(n)

\* handleRemove
HandleRemove(index) ==
  IF At(tracks, index) = NoTrack
  THEN Ignore(Event("Remove", index))
  ELSE IF ~apiBase THEN RemoveLocal(index) ELSE RemoveSend(index)

\* server.js: app.get('/api/tracks')
ServeGet(k) ==
  /\ pending[k].kind = "GET" /\ pending[k].stage = "sent"
  /\ pending' = [pending EXCEPT ![k].stage = "served", ![k].status = 200,
                                ![k].data = library]
  /\ UNCHANGED <<apiBase, tracks, currentIndex, isPlaying, shuffle, repeatMode,
                 volume, audio, calls, library, nextId, ev>>

\* server.js: app.post('/api/upload')
ServePost(k) ==
  /\ pending[k].kind = "POST" /\ pending[k].stage = "sent"
  /\ LET added == [j \in 1..pending[k].n |-> nextId + j]
     IN  /\ library' = library \o added
         /\ nextId' = nextId + pending[k].n
         /\ pending' = [pending EXCEPT ![k].stage = "served", ![k].status = 200,
                                       ![k].data = added]
  /\ UNCHANGED <<apiBase, tracks, currentIndex, isPlaying, shuffle, repeatMode,
                 volume, audio, calls, ev>>

\* server.js: app.delete('/api/tracks/:id')
ServeDelete(k) ==
  /\ pending[k].kind = "DELETE" /\ pending[k].stage = "sent"
  /\ LET idx == FindIndex(library, pending[k].id)
     IN  IF idx = -1
         THEN /\ pending' = [pending EXCEPT ![k].stage = "served",
                                            ![k].status = 404]
              /\ UNCHANGED library
         ELSE /\ library' = RemoveAt(library, idx)
              /\ pending' = [pending EXCEPT ![k].stage = "served",
                                            ![k].status = 200]
  /\ UNCHANGED <<apiBase, tracks, currentIndex, isPlaying, shuffle, repeatMode,
                 volume, audio, calls, nextId, ev>>

\* The objects of a parsed JSON response.
AsTracks(ids, via) == [j \in 1..Len(ids) |-> [id |-> ids[j], via |-> via]]

\* App.jsx, initial load effect after `await res.json()`.
LoadResponse(k) ==
  /\ pending[k].kind = "GET" /\ pending[k].stage = "served"
  /\ pending' = DropAt(pending, k)
  /\ Commit(AsTracks(pending[k].data, "load"),
            IF Len(pending[k].data) > 0 THEN 0 ELSE currentIndex,
            isPlaying, volume, Fresh, Event("Loaded", null))
  /\ UNCHANGED <<apiBase, shuffle, repeatMode, library, nextId>>

\* handleUpload, server branch after `await res.json()`.
UploadResponse(k) ==
  /\ pending[k].kind = "POST" /\ pending[k].stage = "served"
  /\ pending' = DropAt(pending, k)
  /\ Commit(tracks \o AsTracks(pending[k].data, "add"),
            IF pending[k].ci = null /\ Len(pending[k].data) > 0
            THEN 0 ELSE currentIndex,
            isPlaying, volume, Fresh, Event("Uploaded", null))
  /\ UNCHANGED <<apiBase, shuffle, repeatMode, library, nextId>>

\* handleRemove, server branch after `await fetch(...)`: fetch resolves for
\* every HTTP status, 404 included.
DeleteResponse(k) ==
  /\ pending[k].kind = "DELETE" /\ pending[k].stage = "served"
  /\ pending' = DropAt(pending, k)
  /\ RemoveUpdates(pending[k].index, pending[k].ci,
                   Event("Removed", pending[k].index))
  /\ UNCHANGED <<apiBase, shuffle, repeatMode, library, nextId>>

\* A fetch rejects (network error, before or after the server acted): the
\* handler's catch block logs and changes nothing.
FetchFails(k) ==
  /\ pending' = DropAt(pending, k)
  /\ calls' = <<>>
  /\ ev' = Event("FetchFailed", null)
  /\ UNCHANGED <<apiBase, tracks, currentIndex, isPlaying, shuffle, repeatMode,
                 volume, audio, library, nextId>>

\* ---------------------------------------------------------- specification
\* The state after the first render: the Player effects have set the volume
\* and paused the element; in server mode the initial GET is in flight.
Mounted(api) ==
  /\ apiBase = api
  /\ tracks = <<>>
  /\ currentIndex = null
  /\ isPlaying = FALSE
  /\ shuffle = FALSE
  /\ repeatMode = "off"
  /\ volume = DefaultVolume
  /\ audio = [src |-> null, paused |-> TRUE, currentTime |-> 0]
  /\ calls = <<"volume", "pause">>
  /\ library = <<>>
  /\ nextId = 0
  /\ pending = IF api THEN <<Request("GET", null, 0, null, 0)>> ELSE <<>>
  /\ ev = Event("Mount", null)

\* API_BASE = "" (client-only mode, the value in the source).
Init == Mounted(FALSE)

Next ==
  \/ \E n \in 1..MaxFiles : HandleUpload(n)
  \/ \E index \in 0..Len(tracks) : HandleRemove(index)
  \/ \E index \in -1..Len(tracks) : HandleSelect(index)
  \/ HandlePlayPause
  \/ HandleNext
  \/ HandlePrev
  \/ HandleEnded
  \/ \E t \in Times : HandleSeek(t)
  \/ \E t \in Times : Progress(t)
  \/ ToggleRepeatMode
  \/ ToggleShuffle
  \/ ToggleMute

Spec == Init /\ [][Next]_vars

\* API_BASE set to the back-end's address (server mode).  The playback
\* settings stay at their initial values in this specification, and the
\* track list delivers clicks on the rows it shows only.
InitServer == Mounted(TRUE)

NextServer ==
  \/ \E n \in 1..MaxFiles : HandleUpload(n)
  \/ \E index \in 0..(Len(tracks) - 1) : HandleRemove(index)
  \/ \E index \in 0..(Len(tracks) - 1) : HandleSelect(index)
  \/ HandlePlayPause
  \/ HandleNext
  \/ HandlePrev
  \/ HandleEnded
  \/ \E k \in 1..Len(pending) : ServeGet(k)
  \/ \E k \in 1..Len(pending) : ServePost(k)
  \/ \E k \in 1..Len(pending) : ServeDelete(k)
  \/ \E k \in 1..Len(pending) : LoadResponse(k)
  \/ \E k \in 1..Len(pending) : UploadResponse(k)
  \/ \E k \in 1..Len(pending) : DeleteResponse(k)
  \/ \E k \in 1..Len(pending) : FetchFails(k)

SpecServer == InitServer /\ [][NextServer]_vars

TypeOK ==
  /\ apiBase \in BOOLEAN
  /\ isPlaying \in BOOLEAN
  /\ shuffle \in BOOLEAN
  /\ repeatMode \in RepeatModes
  /\ volume \in {0, DefaultVolume}
  /\ audio.currentTime \in Times
  /\ nextId \in 0..(MaxId + MaxServerId)
  /\ Len(pending) <= MaxPending

\* ------------------------------------------------------------- properties
\* C1: in every reachable state an empty track list implies that nothing is
\* selected (currentIndex is null) and nothing is playing.
C1_EmptyLibraryIsIdle ==
  Len(tracks) = 0 => (currentIndex = null /\ ~isPlaying)

\* C2: in every reachable state currentIndex is null or an index of the
\* track list, 0 <= currentIndex < tracks.length.
C2_IndexInRange ==
  currentIndex = null \/ (0 <= currentIndex /\ currentIndex < Len(tracks))

\* The state [currentIndex, isPlaying] after each of k consecutive handleNext
\* calls that start from d, shuffle off (the random pick is not consulted).
RECURSIVE NextRun(_, _, _, _)
NextRun(d, len, rm, k) ==
  IF k = 0 THEN <<>>
  ELSE LET d1 == NextDecision(len, d.currentIndex, d.isPlaying, FALSE, rm, 0)
       IN  <<d1>> \o NextRun(d1, len, rm, k - 1)

\* C3: with shuffle off, repeatMode = all, n > 0 tracks and currentIndex an
\* index of the list, n consecutive handleNext calls select every index
\* exactly once, end on the starting index, and each leaves isPlaying = TRUE.
C3_RepeatAllCycles ==
  (~shuffle /\ repeatMode = "all" /\ Len(tracks) > 0
     /\ currentIndex >= 0 /\ currentIndex < Len(tracks))
  => LET n == Len(tracks)
         run == NextRun([currentIndex |-> currentIndex, isPlaying |-> isPlaying],
                        n, repeatMode, n)
     IN  /\ {run[k].currentIndex : k \in 1..n} = 0..(n - 1)
         /\ run[n].currentIndex = currentIndex
         /\ \A k \in 1..n : run[k].isPlaying

\* The Next button has just wrapped from the last of three tracks to the first.
C3_Witness ==
  /\ ev.name = "Next" /\ ~shuffle /\ repeatMode = "all"
  /\ Len(tracks) = 3 /\ currentIndex = 0 /\ isPlaying
  /\ calls = <<"load", "play">>

\* C4: with shuffle off and repeatMode = off, handleNext at the last index
\* sets isPlaying to FALSE and keeps currentIndex; at an earlier index it
\* sets currentIndex to currentIndex + 1 and isPlaying to TRUE.
C4_NextRepeatOff ==
  [][(ev'.name = "Next" /\ ~shuffle /\ repeatMode = "off"
        /\ currentIndex >= 0 /\ currentIndex < Len(tracks))
     => IF currentIndex = Len(tracks) - 1
        THEN ~isPlaying' /\ currentIndex' = currentIndex
        ELSE currentIndex' = currentIndex + 1 /\ isPlaying']_vars

\* Next at the last of three tracks has just stopped playback.
C4_Witness ==
  /\ ev.name = "Next" /\ ~shuffle /\ repeatMode = "off"
  /\ Len(tracks) = 3 /\ currentIndex = 2 /\ ~isPlaying
  /\ calls = <<"load", "pause">>

\* The step is a queue decision made with shuffle on for a selected track:
\* Next, Ended unless repeatMode = one, or Previous below the restart
\* shortcut (above it handlePrev returns before choosing an index).
ShuffleDecisionStep ==
  /\ shuffle /\ Len(tracks) > 1 /\ currentIndex # null
  /\ \/ ev'.name = "Next"
     \/ ev'.name = "Ended" /\ repeatMode # "one"
     \/ ev'.name = "Prev" /\ ~(audio.currentTime > RestartThreshold)

\* C5: with shuffle on, more than one track and a selected currentIndex, the
\* index chosen by Next, Ended (repeatMode # one) or Previous differs from the
\* index current before the event and is an index of the list.
C5_ShuffleNeverRepeats ==
  [][ShuffleDecisionStep
     => /\ currentIndex' # currentIndex
        /\ currentIndex' >= 0 /\ currentIndex' < Len(tracks)]_vars

\* Previous has just chosen a track with shuffle on among three tracks.
C5_Witness ==
  /\ ev.name = "Prev" /\ shuffle /\ Len(tracks) = 3
  /\ currentIndex = 2 /\ isPlaying /\ calls = <<"load", "play">>

\* A step of the client: a handler or the continuation of one, which records
\* itself in ev.  The server's steps only move a request from sent to served
\* and leave ev as the last handler set it.
HandlerStep == ~(Len(pending') = Len(pending) /\ pending' # pending)

\* A step in which handleRemove drops the track at index ev'.arg: the
\* handler itself in client-only mode, its continuation after the DELETE
\* in server mode.
RemovalStep ==
  /\ HandlerStep
  /\ ev'.name \in {"Remove", "Removed"}
  /\ At(tracks, ev'.arg) # NoTrack

\* C6: handleRemove applied to the track that is current when the removal
\* takes effect results in currentIndex = null and isPlaying = FALSE.
C6_RemoveCurrentStops ==
  [][(RemovalStep /\ ev'.arg = currentIndex)
     => (currentIndex' = null /\ ~isPlaying')]_vars

\* C7: handleRemove applied to an index smaller than currentIndex decrements
\* currentIndex by exactly one and leaves isPlaying, shuffle, repeatMode and
\* volume unchanged.
C7_RemoveBeforeRebases ==
  [][(RemovalStep /\ currentIndex # null /\ ev'.arg < currentIndex)
     => (/\ currentIndex' = currentIndex - 1
         /\ UNCHANGED <<isPlaying, shuffle, repeatMode, volume>>)]_vars

\* C8: when the track ends with repeatMode = one, currentIndex (and the rest
\* of the playback state) is unchanged and the audio element receives exactly
\* a seek to 0 followed by play(); no handleNext decision is applied.
C8_RepeatOneRestarts ==
  [][(ev'.name = "Ended" /\ repeatMode = "one")
     => (/\ UNCHANGED <<tracks, currentIndex, isPlaying, shuffle, repeatMode>>
         /\ calls' = <<"seek", "play">>
         /\ audio'.currentTime = 0
         /\ audio'.src = audio.src)]_vars

\* A playing track has just been restarted by `ended` with repeatMode = one,
\* shuffle on and other tracks to choose from.
C8_Witness ==
  /\ ev.name = "Ended" /\ repeatMode = "one" /\ shuffle
  /\ Len(tracks) > 1 /\ currentIndex = 1 /\ isPlaying
  /\ calls = <<"seek", "play">> /\ ~audio.paused /\ audio.currentTime = 0

\* C9: with an empty track list handleNext, handlePrev and handlePlayPause
\* change no playback state and make no call on the audio element.
C9_EmptyLibraryNoOp ==
  [][(HandlerStep /\ ev'.name \in {"Next", "Prev", "PlayPause"}
        /\ Len(tracks) = 0)
     => (/\ UNCHANGED <<currentIndex, isPlaying, shuffle, repeatMode, audio>>
         /\ calls' = <<>>)]_vars

\* C10: with currentIndex = null, Next, Previous and Ended leave currentIndex
\* null and isPlaying FALSE, for every shuffle and repeatMode setting.
C10_NothingSelectedNoOp ==
  [][(ev'.name \in {"Next", "Prev", "Ended"} /\ currentIndex = null)
     => (currentIndex' = null /\ ~isPlaying')]_vars

C12_RestartShortcut ==
  [][(ev'.name = "Prev" /\ Len(tracks) > 0)
     => IF currentIndex # null /\ audio.currentTime > RestartThreshold
        THEN /\ UNCHANGED <<tracks, currentIndex, isPlaying>>
             /\ calls' = <<"seek">>
             /\ audio' = [audio EXCEPT !.currentTime = 0]
        ELSE /\ \A k \in 1..Len(calls') : calls'[k] # "seek"
             /\ \E r \in Picks(Len(tracks)) :
                  LET d == PrevDecision(Len(tracks), currentIndex, isPlaying,
                                        shuffle, repeatMode, r)
                  IN  currentIndex' = d.currentIndex /\ isPlaying' = d.isPlaying]_vars

\* C13: handleSelect with 0 <= index < tracks.length sets currentIndex to
\* index and isPlaying to TRUE, and the element then holds that track's source
\* and plays it; with any other index it changes no state and issues no
\* adapter call.
C13_SelectLoadsAndPlays ==
  [][ev'.name = "Select"
     => IF ev'.arg >= 0 /\ ev'.arg < Len(tracks)
        THEN /\ currentIndex' = ev'.arg /\ isPlaying'
             /\ tracks' = tracks
             /\ audio'.src = At(tracks, ev'.arg).id /\ ~audio'.paused
        ELSE /\ UNCHANGED <<tracks, currentIndex, isPlaying, audio>>
             /\ calls' = <<>>]_vars

\* C14: handlePlayPause with nothing selected and a non-empty list ends in the
\* state selecting row 0 produces (currentIndex = 0, isPlaying = TRUE, the
\* first track loaded and playing); with a track selected it flips isPlaying,
\* keeps currentIndex, and the element receives play() when isPlaying became
\* TRUE and pause() when it became FALSE.
C14_PlayPause ==
  [][ev'.name = "PlayPause"
     => /\ (currentIndex = null /\ Len(tracks) > 0)
             => /\ currentIndex' = 0 /\ isPlaying' /\ tracks' = tracks
                /\ audio' = [src |-> At(tracks, 0).id, paused |-> FALSE,
                             currentTime |-> 0]
        /\ currentIndex # null
             => /\ isPlaying' = ~isPlaying
                /\ currentIndex' = currentIndex /\ tracks' = tracks
                /\ \E k \in 1..Len(calls') :
                     calls'[k] = IF isPlaying' THEN "play" ELSE "pause"
                /\ \A k \in 1..Len(calls') :
                     calls'[k] # IF isPlaying' THEN "pause" ELSE "play"
                /\ audio'.paused = ~isPlaying']_vars

\* Play/pause has just paused the second of two tracks.
C14_Witness ==
  /\ ev.name = "PlayPause" /\ currentIndex = 1 /\ Len(tracks) = 2
  /\ ~isPlaying /\ audio.paused /\ calls = <<"load", "pause">>

C16_FailedDeleteKeepsState ==
  [][(\E k \in 1..Len(pending) :
        /\ pending[k].kind = "DELETE"
        /\ pending' = DropAt(pending, k)
        /\ \/ ev'.name = "FetchFailed"
           \/ /\ ev' = Event("Removed", pending[k].index)
              /\ pending[k].stage = "served" /\ pending[k].status = 404)
     => UNCHANGED <<tracks, currentIndex, isPlaying>>]_vars

\* C17: no other event's update takes effect between a handler reading
\* tracks and currentIndex and writing its own updates: while handleRemove or
\* handleUpload awaits its fetch, currentIndex is still the value the handler
\* read, and for handleRemove tracks[index] is still the track it read.
C17_HandlersAtomic ==
  \A k \in 1..Len(pending) :
    pending[k].kind \in {"DELETE", "POST"}
      => /\ pending[k].ci = currentIndex
         /\ pending[k].kind = "DELETE"
              => At(tracks, pending[k].index).id = pending[k].id

\* C18: no two entries of tracks have the same id.
C18_UniqueIds ==
  \A i, j \in 1..Len(tracks) : i # j => tracks[i].id # tracks[j].id

\* C19: in every reachable state, isPlaying = TRUE implies that currentIndex
\* is not null.
C19_PlayingHasCurrent == isPlaying => currentIndex # null

\* The playing track has just been removed: nothing is selected, isPlaying
\* is FALSE and the element was paused.
C19_Witness ==
  /\ ev.name = "Remove" /\ currentIndex = null /\ ~isPlaying
  /\ Len(tracks) > 0 /\ calls = <<"pause">>

\* C20: removing a track other than the current one, or adding tracks, while
\* a track is current leaves that track current: currentIndex is not null
\* afterwards, tracks[currentIndex] has the same id, and isPlaying is
\* unchanged; also when the removal takes effect after other events have
\* changed currentIndex.
C20_OtherTrackKeepsCurrent ==
  [][(/\ At(tracks, currentIndex) # NoTrack
      /\ \/ RemovalStep /\ ev'.arg # currentIndex
         \/ HandlerStep /\ ev'.name \in {"Upload", "Uploaded"})
     => /\ currentIndex' # null
        /\ At(tracks', currentIndex').id = At(tracks, currentIndex).id
        /\ isPlaying' = isPlaying]_vars

\* C21: each handleRemove call removes at most one track from tracks, and
\* only the track whose id it asked the server to delete: the continuation
\* of a DELETE either leaves tracks as it is or drops exactly the entry at its
\* index, and that entry has the requested id; for every interleaving of
\* removals and their responses.
C21_RemoveOnlyRequested ==
  [][\A k \in 1..Len(pending) :
       (/\ pending[k].kind = "DELETE" /\ pending[k].stage = "served"
        /\ pending' = DropAt(pending, k)
        /\ ev' = Event("Removed", pending[k].index))
       => \/ tracks' = tracks
          \/ /\ At(tracks, pending[k].index).id = pending[k].id
             /\ tracks' = RemoveAt(tracks, pending[k].index)]_vars

\* C22: the element's source is assigned only when the current track
\* changes; play/pause on a selected track issues only play() or pause() and
\* keeps the element's source and position.
C22_LoadOnlyOnTrackChange ==
  [][/\ (\E k \in 1..Len(calls') : calls'[k] = "load")
          => TrackProp(tracks', currentIndex') # TrackProp(tracks, currentIndex)
     /\ (ev'.name = "PlayPause" /\ currentIndex # null)
          => /\ calls' \in {<<"play">>, <<"pause">>}
             /\ audio'.src = audio.src
             /\ audio'.currentTime = audio.currentTime]_vars

====
